---- MODULE Spec2Model ----
(***************************************************************************)
(* ReqGen AI backend (huggingface-spaces/app.py): the request handlers     *)
(* summarize_text, process_audio and generate_document, the module-level   *)
(* model cache they share (_whisper_model, _t5_tokenizer, _t5_model) and   *)
(* the wall clock generate_document reads.  Request handlers run on the    *)
(* transport's worker threads, so their steps interleave at every access   *)
(* to the shared cache.                                                    *)
(*                                                                         *)
(* Python strings are sequences of one-character strings.  A handler's    *)
(* JSON reply is a record with the keys of the dict handed to json.dumps.  *)
(* get_device / _device (a cache of a constant of the host) and the two    *)
(* read-only handlers transcribe_audio and health_check are left out.      *)
(***************************************************************************)
EXTENDS Naturals, Integers, Sequences, FiniteSets, TLC

----------------------------------------------------------------------------
(* Bounds of the model *)

\* texts are padded with 0..MaxPad whitespace characters on each side
MaxPad == 1
\* the wall clock is stepped MaxTicks times at most
MaxTicks == 2

\* the worker threads serving requests
Handlers == {"h1", "h2"}

----------------------------------------------------------------------------
(* Program constants *)

MinTextLen      == 10
EncodeMaxLength == 512
GenMaxLength    == 256
GenMinLength    == 50
GenNumBeams     == 4
GenLengthPenalty == 2
SummaryChars    == 500
\* the words of the two templates outside their interpolated fields
BrdLiteralWords == 70
PoLiteralWords  == 21
SecondsPerDay   == 24 * 60 * 60

None == "None"

----------------------------------------------------------------------------
(* Python string operations *)

IsSpace(c) == c \in {" ", "\t", "\n"}

RECURSIVE LStrip(_)
LStrip(s) == IF s = <<>> THEN s
             ELSE IF IsSpace(Head(s)) THEN LStrip(Tail(s)) ELSE s

RECURSIVE RStrip(_)
RStrip(s) == IF s = <<>> THEN s
             ELSE IF IsSpace(s[Len(s)]) THEN RStrip(SubSeq(s, 1, Len(s) - 1)) ELSE s

\* str.strip()
Strip(s) == RStrip(LStrip(s))

\* len(s.split()): the number of maximal runs of non-whitespace characters
WordCount(s) ==
  Cardinality({i \in 1..Len(s) : ~IsSpace(s[i]) /\ (i = 1 \/ IsSpace(s[i-1]))})

\* s[:n]
Take(s, n) == SubSeq(s, 1, IF Len(s) < n THEN Len(s) ELSE n)

\* s.replace(old, new) for one-character old and new
Replace(s, old, new) == [i \in 1..Len(s) |-> IF s[i] = old THEN new ELSE s[i]]

\* os.path.basename(path): what follows the last "/"
RECURSIVE Basename(_)
Basename(path) ==
  IF \E i \in 1..Len(path) : path[i] = "/" THEN Basename(Tail(path)) ELSE path

\* d.get(key, default)
DictGet(d, key, default) == IF key \in DOMAIN d THEN d[key] ELSE default

\* JSON values
JStr(s) == [t |-> "str", v |-> s]
JInt(n) == [t |-> "int", v |-> n]
JDict(fields) == [t |-> "dict", v |-> fields]
JList == [t |-> "list"]

\* json.loads on the metadata strings of MetadataInputs
JsonLoads(s) ==
  CASE s = "{}" -> [ok |-> TRUE, value |-> JDict(<<>>)]
    [] s = "{\"project_name\": \"My P\", \"company_name\": \"Co\"}" ->
         [ok |-> TRUE,
          value |-> JDict([project_name |-> JStr(<<"M", "y", " ", "P">>),
                           company_name |-> JStr(<<"C", "o">>)])]
    [] s = "{\"company_name\": \"Co\"}" ->
         [ok |-> TRUE, value |-> JDict([company_name |-> JStr(<<"C", "o">>)])]
    [] s = "{\"project_name\": 5}" ->
         [ok |-> TRUE, value |-> JDict([project_name |-> JInt(5)])]
    [] s = "[]" -> [ok |-> TRUE, value |-> JList]
    [] OTHER ->
         [ok |-> FALSE,
          exc |-> [type |-> "JSONDecodeError",
                   msg |-> "Expecting value: line 1 column 1 (char 0)"]]

\* how an f-string renders a value
Format(x) == IF x.t = "str" THEN x.v ELSE <<ToString(x.v)>>

\* datetime.strftime: "%Y-%m-%d" renders the day, the other two formats the
\* day and the second of the day
Strftime(t, fmt) ==
  IF fmt = "%Y-%m-%d"
    THEN [fmt |-> fmt, day |-> t \div SecondsPerDay]
    ELSE [fmt |-> fmt, day |-> t \div SecondsPerDay, second |-> t % SecondsPerDay]

\* str(e) of an exception raised with one message argument: the message
\* alone, the exception's type is not part of it
Str(e) == e.msg

----------------------------------------------------------------------------
(* Inputs *)

Rep(c, n) == [i \in 1..n |-> c]
\* n one-letter words separated by single blanks
Words(n) == [i \in 1..(2 * n - 1) |-> IF i % 2 = 1 THEN "a" ELSE " "]
Pad(k, s) == Rep(" ", k) \o s \o Rep(" ", k)

Bodies == {<<>>, Rep("a", 9), Rep("a", 10), Words(40)}
Texts == {Pad(k, b) : k \in 0..MaxPad, b \in Bodies}

Strategies == {"balanced", "concise", "detailed"}
\* "ultra" stands for a value outside the three the form offers
Qualities == {"low", "medium", "high", "ultra"}

\* what the summarization model may decode to
Summaries == {<<"a">>, <<"a", " ", "a">>}

\* failures of the external libraries
T5LoadFailures == {[type |-> "OSError", msg |-> "cannot load google/flan-t5-small"]}
T5MoveFailures == {[type |-> "RuntimeError", msg |-> "out of memory"]}
GenerateFailures == {[type |-> "RuntimeError", msg |-> "out of memory"]}
WhisperLoadFailures == {[type |-> "RuntimeError", msg |-> "cannot load whisper tiny"]}
TranscribeFailures == {[type |-> "RuntimeError", msg |-> "failed to load audio"]}

DocTexts == {<<>>, <<"a", " ", "a">>}
DocumentTypes == {"brd", "po"}
MetadataInputs ==
  {"", "{}", "{\"project_name\": \"My P\", \"company_name\": \"Co\"}",
   "{\"company_name\": \"Co\"}", "{\"project_name\": 5}", "[]", "not json"}

\* an optional audio path: None, or a path string
NoAudio == [none |-> TRUE]
AudioFile(path) == [none |-> FALSE, path |-> path]
AudioPaths == {NoAudio, AudioFile(<<"u", "/", "m">>), AudioFile(<<>>)}

\* what Whisper may return: a dict with "text" and, as a rule, "language"
Transcripts == {<<>>, <<"a", " ", "a">>}
Transcriptions ==
  {[text |-> t, language |-> "en"] : t \in Transcripts} \cup {[text |-> <<"a">>]}

----------------------------------------------------------------------------
(* State *)

VARIABLES
  _whisper_model,   \* module global: None or the loaded Whisper model
  _t5_tokenizer,    \* module global: None or the loaded tokenizer
  _t5_model,        \* module global: None or the loaded T5 model
  clock,            \* datetime.now(), in seconds
  ticks,            \* how often the clock has been stepped
  pc,               \* pc[p]: where handler p stands
  req,              \* req[p]: the arguments of the call p is serving
  loc,              \* loc[p]: the local variables of that call
  calls,            \* calls[p]: the external library calls made for it, with their outcome
  result            \* result[p]: what the call handed back to its caller

vars == <<_whisper_model, _t5_tokenizer, _t5_model, clock, ticks,
          pc, req, loc, calls, result>>

globals == <<_whisper_model, _t5_tokenizer, _t5_model>>

Idle == [op |-> "idle"]
NoLocals == [tokenizer |-> None, model |-> None, whisper_result |-> <<>>, nows |-> <<>>]
NoResult == [kind |-> "none"]

\* a handler returns the string json.dumps(d)
Return(d) == [kind |-> "return", json |-> d]

\* a handler that swallows the failure and answers with an empty summary
ExceptHandler_Fallback(e) == Return([success |-> TRUE, summary |-> <<>>])

\* except Exception as e: return json.dumps({"error": str(e)})
ExceptHandler(e) == Return([error |-> Str(e)])

\* the attribute lookup model.generate on None
NoneGenerate ==
  [type |-> "AttributeError", msg |-> "'NoneType' object has no attribute 'generate'"]

Call(fn, args, reply) == [fn |-> fn, args |-> args, reply |-> reply]
Ok(v) == [ok |-> TRUE, value |-> v]
Raised(e) == [ok |-> FALSE, exc |-> e]

Init ==
  /\ _whisper_model = None
  /\ _t5_tokenizer = None
  /\ _t5_model = None
  /\ clock = 0
  /\ ticks = 0
  /\ pc = [p \in Handlers |-> "idle"]
  /\ req = [p \in Handlers |-> Idle]
  /\ loc = [p \in Handlers |-> NoLocals]
  /\ calls = [p \in Handlers |-> <<>>]
  /\ result = [p \in Handlers |-> NoResult]

\* the handler's call ends: it hands d (or the except clause's reply) back
Finish(p, r) ==
  /\ pc' = [pc EXCEPT ![p] = "done"]
  /\ result' = [result EXCEPT ![p] = r]

Goto(p, label) ==
  /\ pc' = [pc EXCEPT ![p] = label]
  /\ UNCHANGED result

----------------------------------------------------------------------------
(* get_t5_model, called from summarize_text and process_audio *)

\* if _t5_tokenizer is None:
get_t5_model_test(p) ==
  /\ pc[p] = "t5_test"
  /\ Goto(p, IF _t5_tokenizer = None THEN "t5_load_tokenizer" ELSE "t5_return")
  /\ UNCHANGED <<globals, clock, ticks, req, loc, calls>>

\* _t5_tokenizer = T5Tokenizer.from_pretrained(T5_MODEL)
get_t5_model_load_tokenizer(p) ==
  /\ pc[p] = "t5_load_tokenizer"
  /\ \/ /\ _t5_tokenizer' = "T5Tokenizer"
        /\ calls' = [calls EXCEPT ![p] =
                       Append(@, Call("T5Tokenizer.from_pretrained", <<>>, Ok("T5Tokenizer")))]
        /\ Goto(p, "t5_load_model")
     \/ \E e \in T5LoadFailures :
          /\ UNCHANGED _t5_tokenizer
          /\ calls' = [calls EXCEPT ![p] =
                         Append(@, Call("T5Tokenizer.from_pretrained", <<>>, Raised(e)))]
          /\ Finish(p, ExceptHandler(e))
  /\ UNCHANGED <<_whisper_model, _t5_model, clock, ticks, req, loc>>

\* _t5_model = T5ForConditionalGeneration.from_pretrained(T5_MODEL)
\* _t5_model.to(get_device()); _t5_model.eval()
get_t5_model_load_model(p) ==
  /\ pc[p] = "t5_load_model"
  /\ \/ /\ _t5_model' = "T5Model"
        /\ calls' = [calls EXCEPT ![p] =
                       Append(@, Call("T5ForConditionalGeneration.from_pretrained", <<>>, Ok("T5Model")))]
        /\ Goto(p, "t5_return")
     \/ \E e \in T5LoadFailures :
          \* from_pretrained raises: the global keeps its value
          /\ UNCHANGED _t5_model
          /\ calls' = [calls EXCEPT ![p] =
                         Append(@, Call("T5ForConditionalGeneration.from_pretrained", <<>>, Raised(e)))]
          /\ Finish(p, ExceptHandler(e))
     \/ \E e \in T5MoveFailures :
          \* the model is loaded and assigned, and moving it to the device raises
          /\ _t5_model' = "T5Model"
          /\ calls' = [calls EXCEPT ![p] =
                         @ \o << Call("T5ForConditionalGeneration.from_pretrained", <<>>, Ok("T5Model")),
                                 Call("to", <<>>, Raised(e)) >>]
          /\ Finish(p, ExceptHandler(e))
  /\ UNCHANGED <<_whisper_model, _t5_tokenizer, clock, ticks, req, loc>>

\* return _t5_tokenizer, _t5_model
get_t5_model_return(p) ==
  /\ pc[p] = "t5_return"
  /\ loc' = [loc EXCEPT ![p] = [@ EXCEPT !.tokenizer = _t5_tokenizer, !.model = _t5_model]]
  /\ Goto(p, "generate")
  /\ UNCHANGED <<globals, clock, ticks, req, calls>>

----------------------------------------------------------------------------
(* summarize_text *)

\* the length check without the strip
TooShort_NoStrip(text) == text = <<>> \/ Len(text) < MinTextLen

\* not text or len(text.strip()) < 10
TooShort(text) == text = <<>> \/ Len(Strip(text)) < MinTextLen

\* tokenizer.encode(f"summarize: {text}", return_tensors="pt", max_length=512,
\*                  truncation=True)
Encode(text) ==
  [prompt |-> <<"summarize: ", text>>, max_length |-> EncodeMaxLength, truncation |-> TRUE]

\* generate arguments that follow the strategy label
SummarizeGenerateArgs_ByStrategy(text, strategy, quality) ==
  [inputs |-> Encode(text),
   max_length |-> IF strategy = "concise" THEN GenMaxLength \div 2 ELSE GenMaxLength,
   min_length |-> GenMinLength,
   num_beams |-> GenNumBeams,
   length_penalty |-> GenLengthPenalty,
   early_stopping |-> TRUE]

\* the keyword arguments of model.generate in summarize_text
SummarizeGenerateArgs(text, strategy, quality) ==
  [inputs |-> Encode(text),
   max_length |-> GenMaxLength,
   min_length |-> GenMinLength,
   num_beams |-> GenNumBeams,
   length_penalty |-> GenLengthPenalty,
   early_stopping |-> TRUE]

SummarizeReply(text, strategy, quality, summary) ==
  [success |-> TRUE,
   summary |-> summary,
   word_count |-> WordCount(text),
   summary_word_count |-> WordCount(summary),
   strategy |-> strategy,
   quality |-> quality]

\* the call and its length check
summarize_text_enter(p, load) ==
  /\ pc[p] = "idle"
  /\ \E text \in load.texts, strategy \in load.strategies, quality \in load.qualities :
       /\ req' = [req EXCEPT ![p] = [op |-> "summarize_text", text |-> text,
                                     strategy |-> strategy, quality |-> quality]]
       /\ IF TooShort(text)
            THEN Finish(p, Return([error |-> "Text too short to summarize"]))
            ELSE Goto(p, "t5_test")
  /\ loc' = [loc EXCEPT ![p] = NoLocals]
  /\ calls' = [calls EXCEPT ![p] = <<>>]
  /\ UNCHANGED <<globals, clock, ticks>>

\* encode, model.generate, decode and the reply
summarize_text_generate(p) ==
  /\ pc[p] = "generate"
  /\ req[p].op = "summarize_text"
  /\ LET r == req[p]
         args == SummarizeGenerateArgs(r.text, r.strategy, r.quality)
     IN IF loc[p].model = None
          THEN /\ Finish(p, ExceptHandler(NoneGenerate))
               /\ UNCHANGED calls
          ELSE \/ \E summary \in Summaries :
                    /\ calls' = [calls EXCEPT ![p] = Append(@, Call("generate", args, Ok(summary)))]
                    /\ Finish(p, Return(SummarizeReply(r.text, r.strategy, r.quality, summary)))
               \/ \E e \in GenerateFailures :
                    /\ calls' = [calls EXCEPT ![p] = Append(@, Call("generate", args, Raised(e)))]
                    /\ Finish(p, ExceptHandler(e))
  /\ UNCHANGED <<globals, clock, ticks, req, loc>>

----------------------------------------------------------------------------
(* process_audio; its strategy and quality arguments are never read *)

\* generate arguments with the two length bounds exchanged
ProcessAudioGenerateArgs_Swapped(transcript) ==
  [inputs |-> Encode(transcript),
   max_length |-> GenMinLength,
   min_length |-> GenMaxLength,
   num_beams |-> GenNumBeams,
   length_penalty |-> GenLengthPenalty,
   early_stopping |-> TRUE]

\* the keyword arguments of model.generate in process_audio
ProcessAudioGenerateArgs(transcript) ==
  [inputs |-> Encode(transcript),
   max_length |-> GenMaxLength,
   min_length |-> GenMinLength,
   num_beams |-> GenNumBeams,
   length_penalty |-> GenLengthPenalty,
   early_stopping |-> TRUE]

ProcessAudioReply(audio_path, whisper_result, summary) ==
  [success |-> TRUE,
   transcript |-> whisper_result.text,
   summary |-> summary,
   language |-> DictGet(whisper_result, "language", "unknown"),
   language_name |-> DictGet(whisper_result, "language", "Unknown"),
   word_count |-> WordCount(whisper_result.text),
   summary_word_count |-> WordCount(summary),
   filename |-> IF audio_path.path # <<>> THEN Basename(audio_path.path)
                ELSE <<"a", "u", "d", "i", "o">>]

\* the call and its check of audio_path
process_audio_enter(p, load) ==
  /\ pc[p] = "idle"
  /\ \E audio_path \in load.audio_paths :
       /\ req' = [req EXCEPT ![p] = [op |-> "process_audio", audio_path |-> audio_path]]
       /\ IF audio_path = NoAudio
            THEN Finish(p, Return([error |-> "No audio file provided"]))
            ELSE Goto(p, "whisper_test")
  /\ loc' = [loc EXCEPT ![p] = NoLocals]
  /\ calls' = [calls EXCEPT ![p] = <<>>]
  /\ UNCHANGED <<globals, clock, ticks>>

\* get_whisper_model: if _whisper_model is None:
get_whisper_model_test(p) ==
  /\ pc[p] = "whisper_test"
  /\ Goto(p, IF _whisper_model = None THEN "whisper_load" ELSE "transcribe")
  /\ UNCHANGED <<globals, clock, ticks, req, loc, calls>>

\* get_whisper_model: _whisper_model = whisper.load_model(...); return _whisper_model
get_whisper_model_load(p) ==
  /\ pc[p] = "whisper_load"
  /\ \/ /\ _whisper_model' = "Whisper"
        /\ calls' = [calls EXCEPT ![p] = Append(@, Call("whisper.load_model", <<>>, Ok("Whisper")))]
        /\ Goto(p, "transcribe")
     \/ \E e \in WhisperLoadFailures :
          /\ UNCHANGED _whisper_model
          /\ calls' = [calls EXCEPT ![p] = Append(@, Call("whisper.load_model", <<>>, Raised(e)))]
          /\ Finish(p, ExceptHandler(e))
  /\ UNCHANGED <<_t5_tokenizer, _t5_model, clock, ticks, req, loc>>

\* result = model.transcribe(audio_path, language=None); transcript = result["text"]
process_audio_transcribe(p) ==
  /\ pc[p] = "transcribe"
  /\ \/ \E w \in Transcriptions :
          /\ calls' = [calls EXCEPT ![p] = Append(@, Call("transcribe", req[p].audio_path, Ok(w)))]
          /\ loc' = [loc EXCEPT ![p] = [@ EXCEPT !.whisper_result = w]]
          /\ Goto(p, "t5_test")
     \/ \E e \in TranscribeFailures :
          /\ calls' = [calls EXCEPT ![p] = Append(@, Call("transcribe", req[p].audio_path, Raised(e)))]
          /\ UNCHANGED loc
          /\ Finish(p, ExceptHandler(e))
  /\ UNCHANGED <<globals, clock, ticks, req>>

\* encode, t5_model.generate, decode and the reply
process_audio_generate(p) ==
  /\ pc[p] = "generate"
  /\ req[p].op = "process_audio"
  /\ LET w == loc[p].whisper_result
         args == ProcessAudioGenerateArgs(w.text)
     IN IF loc[p].model = None
          THEN /\ Finish(p, ExceptHandler(NoneGenerate))
               /\ UNCHANGED calls
          ELSE \/ \E summary \in Summaries :
                    /\ calls' = [calls EXCEPT ![p] = Append(@, Call("generate", args, Ok(summary)))]
                    /\ Finish(p, Return(ProcessAudioReply(req[p].audio_path, w, summary)))
               \/ \E e \in GenerateFailures :
                    /\ calls' = [calls EXCEPT ![p] = Append(@, Call("generate", args, Raised(e)))]
                    /\ Finish(p, ExceptHandler(e))
  /\ UNCHANGED <<globals, clock, ticks, req, loc>>

----------------------------------------------------------------------------
(* generate_document *)

\* an f-string is the sequence of its parts: literal text, interpolated
\* strings and formatted times
Lit(s) == [lit |-> s]
Val(s) == [str |-> s]
Time(t, fmt) == [time |-> Strftime(t, fmt)]

DefaultProject == JStr(<<"P", "r", "o", "j", "e", "c", "t">>)
DefaultCompany == JStr(<<"C", "o", "m", "p", "a", "n", "y">>)

\* metadata = json.loads(metadata_json) if metadata_json else {}
ParseMetadata(metadata_json) ==
  IF metadata_json = "" THEN [ok |-> TRUE, value |-> JDict(<<>>)]
  ELSE JsonLoads(metadata_json)

\* metadata.get(key, default); raises on a value that is no dict
MetadataGet(metadata, key, default) ==
  IF metadata.t = "dict"
    THEN [ok |-> TRUE, value |-> DictGet(metadata.v, key, default)]
    ELSE [ok |-> FALSE,
          exc |-> [type |-> "AttributeError",
                   msg |-> "'" \o metadata.t \o "' object has no attribute 'get'"]]

BrdDocument(text, project_name, company_name, nows) ==
  << Lit("\nBUSINESS REQUIREMENTS DOCUMENT (BRD)\n=====================================\nProject: "),
     Val(Format(project_name)),
     Lit("\nCompany: "),
     Val(Format(company_name)),
     Lit("\nDate: "),
     Time(nows[1], "%Y-%m-%d"),
     Lit("\n\n1. EXECUTIVE SUMMARY\n"),
     Val(Take(text, SummaryChars)),
     Lit("...\n\n2. BUSINESS OBJECTIVES\nBased on the requirements provided, the key objectives are:\n- Implement the described functionality\n- Ensure user satisfaction\n- Meet business goals\n\n3. SCOPE\nThis document covers the requirements as described in the input.\n\n4. REQUIREMENTS\n"),
     Val(text),
     Lit("\n\n5. TIMELINE\nTo be determined based on complexity analysis.\n\n6. STAKEHOLDERS\n- Project Manager\n- Development Team\n- End Users\n") >>

\* a purchase order whose number is the raw clock reading, written as text
PoDocument_RawNumber(text, company_name, nows) ==
  << Lit("\nPURCHASE ORDER\n===============\nPO Number: PO-"),
     Val(<<ToString(nows[1])>>),
     Lit("\nDate: "),
     Time(nows[2], "%Y-%m-%d"),
     Lit("\nCompany: "),
     Val(Format(company_name)),
     Lit("\n\nITEMS/SERVICES:\n"),
     Val(text),
     Lit("\n\nTERMS AND CONDITIONS:\n- Standard payment terms apply\n- Delivery as per agreement\n") >>

PoDocument(text, company_name, nows) ==
  << Lit("\nPURCHASE ORDER\n===============\nPO Number: PO-"),
     Time(nows[1], "%Y%m%d%H%M%S"),
     Lit("\nDate: "),
     Time(nows[2], "%Y-%m-%d"),
     Lit("\nCompany: "),
     Val(Format(company_name)),
     Lit("\n\nITEMS/SERVICES:\n"),
     Val(text),
     Lit("\n\nTERMS AND CONDITIONS:\n- Standard payment terms apply\n- Delivery as per agreement\n") >>

\* len(doc.split())
DocumentWordCount(document_type, text, project_name, company_name) ==
  IF document_type = "brd"
    THEN BrdLiteralWords + WordCount(Format(project_name)) + WordCount(Format(company_name))
         + 1 + WordCount(Take(text, SummaryChars) \o <<".", ".", ".">>) + WordCount(text)
    ELSE PoLiteralWords + 1 + 1 + WordCount(Format(company_name)) + WordCount(text)

\* f"{document_type}_{project_name.replace(' ', '_')}_{now:%Y%m%d_%H%M%S}.txt"
Filename(document_type, project_name, now) ==
  << Lit(document_type), Lit("_"), Val(Replace(project_name.v, " ", "_")), Lit("_"),
     Time(now, "%Y%m%d_%H%M%S"), Lit(".txt") >>

\* the calls of datetime.now() in the template of document_type, the one of
\* the filename included
NowCalls(document_type) == IF document_type = "brd" THEN 2 ELSE 3

DocumentReply(text, document_type, project_name, company_name, nows) ==
  [success |-> TRUE,
   document |-> IF document_type = "brd"
                  THEN BrdDocument(text, project_name, company_name, nows)
                  ELSE PoDocument(text, company_name, nows),
   document_type |-> document_type,
   filename |-> Filename(document_type, project_name, nows[Len(nows)]),
   word_count |-> DocumentWordCount(document_type, text, project_name, company_name)]

\* the call, its check of text and the reading of the metadata
generate_document_enter(p, load) ==
  /\ pc[p] = "idle"
  /\ \E text \in load.doc_texts, document_type \in load.document_types,
        metadata_json \in load.metadata :
       /\ req' = [req EXCEPT ![p] = [op |-> "generate_document", text |-> text,
                                     document_type |-> document_type,
                                     metadata_json |-> metadata_json]]
       /\ LET parsed == ParseMetadata(metadata_json)
          IN IF text = <<>>
               THEN Finish(p, Return([error |-> "No text provided"]))
             ELSE IF ~parsed.ok
               THEN Finish(p, ExceptHandler(parsed.exc))
             ELSE IF ~MetadataGet(parsed.value, "project_name", DefaultProject).ok
               THEN Finish(p, ExceptHandler(MetadataGet(parsed.value, "project_name", DefaultProject).exc))
             ELSE Goto(p, "now")
  /\ loc' = [loc EXCEPT ![p] = NoLocals]
  /\ calls' = [calls EXCEPT ![p] = <<>>]
  /\ UNCHANGED <<globals, clock, ticks>>

\* the next datetime.now() of the template; the last one is the filename's,
\* after project_name.replace, and is followed by the reply
generate_document_now(p) ==
  /\ pc[p] = "now"
  /\ LET r == req[p]
         metadata == ParseMetadata(r.metadata_json).value
         project_name == MetadataGet(metadata, "project_name", DefaultProject).value
         company_name == MetadataGet(metadata, "company_name", DefaultCompany).value
         nows == Append(loc[p].nows, clock)
     IN IF Len(nows) < NowCalls(r.document_type)
          THEN /\ loc' = [loc EXCEPT ![p] = [@ EXCEPT !.nows = nows]]
               /\ Goto(p, "now")
        ELSE IF project_name.t # "str"
          THEN /\ UNCHANGED loc
               /\ Finish(p, ExceptHandler([type |-> "AttributeError",
                      msg |-> "'" \o project_name.t \o "' object has no attribute 'replace'"]))
        ELSE /\ loc' = [loc EXCEPT ![p] = [@ EXCEPT !.nows = nows]]
             /\ Finish(p, Return(DocumentReply(r.text, r.document_type,
                                               project_name, company_name, nows)))
  /\ UNCHANGED <<globals, clock, ticks, req, calls>>

\* the wall clock advances, by a second or by a day
Tick ==
  /\ ticks < MaxTicks
  /\ \E d \in {1, SecondsPerDay} : clock' = clock + d
  /\ ticks' = ticks + 1
  /\ UNCHANGED <<globals, pc, req, loc, calls, result>>

----------------------------------------------------------------------------
(* The transport *)

\* the reply is delivered and the worker takes the next request
Respond(p) ==
  /\ pc[p] = "done"
  /\ pc' = [pc EXCEPT ![p] = "idle"]
  /\ req' = [req EXCEPT ![p] = Idle]
  /\ loc' = [loc EXCEPT ![p] = NoLocals]
  /\ calls' = [calls EXCEPT ![p] = <<>>]
  /\ result' = [result EXCEPT ![p] = NoResult]
  /\ UNCHANGED <<globals, clock, ticks>>

\* the requests the form sends, one worker serving them one after the other
FormLoad ==
  [texts |-> Texts, strategies |-> Strategies, qualities |-> Qualities,
   audio_paths |-> AudioPaths,
   doc_texts |-> DocTexts, document_types |-> DocumentTypes, metadata |-> MetadataInputs]

\* the requests of the concurrent runs: a text too short, two that are accepted
ConcurrentLoad ==
  [texts |-> {Rep("a", 9), Rep("a", 10), Words(40)}, strategies |-> Strategies,
   qualities |-> {"medium", "high"},
   audio_paths |-> {NoAudio, AudioFile(<<"u", "/", "m">>)},
   doc_texts |-> DocTexts, document_types |-> DocumentTypes,
   metadata |-> {"{}", "{\"project_name\": \"My P\", \"company_name\": \"Co\"}"}]

\* requests served by both workers at once
Next ==
  \E p \in Handlers :
    \/ summarize_text_enter(p, ConcurrentLoad)
    \/ get_t5_model_test(p)
    \/ get_t5_model_load_tokenizer(p)
    \/ get_t5_model_load_model(p)
    \/ get_t5_model_return(p)
    \/ summarize_text_generate(p)
    \/ process_audio_enter(p, ConcurrentLoad)
    \/ get_whisper_model_test(p)
    \/ get_whisper_model_load(p)
    \/ process_audio_transcribe(p)
    \/ process_audio_generate(p)
    \/ Respond(p)

Spec == Init /\ [][Next]_vars

\* requests served one at a time, by one worker
NextSeq ==
  \E p \in {"h1"} :
    \/ summarize_text_enter(p, FormLoad)
    \/ get_t5_model_test(p)
    \/ get_t5_model_load_tokenizer(p)
    \/ get_t5_model_load_model(p)
    \/ get_t5_model_return(p)
    \/ summarize_text_generate(p)
    \/ process_audio_enter(p, FormLoad)
    \/ get_whisper_model_test(p)
    \/ get_whisper_model_load(p)
    \/ process_audio_transcribe(p)
    \/ process_audio_generate(p)
    \/ generate_document_enter(p, FormLoad)
    \/ generate_document_now(p)
    \/ Respond(p)
    \/ Tick

SpecSeq == Init /\ [][NextSeq]_vars

\* documents generated by both workers at once, the clock running
NextDoc ==
  \/ \E p \in Handlers :
       \/ generate_document_enter(p, ConcurrentLoad)
       \/ generate_document_now(p)
       \/ Respond(p)
  \/ Tick

SpecDoc == Init /\ [][NextDoc]_vars

----------------------------------------------------------------------------
(* The claims *)

Done(p, op) == pc[p] = "done" /\ req[p].op = op

T5Functions ==
  {"T5Tokenizer.from_pretrained", "T5ForConditionalGeneration.from_pretrained", "to",
   "generate"}
T5CallsOf(p) == SelectSeq(calls[p], LAMBDA c : c.fn \in T5Functions)
GenerateCallsOf(p) == SelectSeq(calls[p], LAMBDA c : c.fn = "generate")
LastCall(p) == calls[p][Len(calls[p])]

\* the length of t between its first and its last non-whitespace character
NonSpaceAt(t) == {i \in 1..Len(t) : t[i] \notin {" ", "\t", "\n"}}
TrimmedLen(t) ==
  IF NonSpaceAt(t) = {} THEN 0
  ELSE (CHOOSE x \in NonSpaceAt(t) : \A y \in NonSpaceAt(t) : y <= x)
       - (CHOOSE x \in NonSpaceAt(t) : \A y \in NonSpaceAt(t) : x <= y) + 1

TextTooShortReply == Return([error |-> "Text too short to summarize"])

\* C1: a summarize request whose text is empty or whose trimmed length is
\* below 10 ends at once with the text-too-short error, and no T5 load or
\* generate call is made for it; a text of trimmed length 10 or more never
\* gets that error.
C1_TooShortRejected ==
  \A p \in Handlers :
    req[p].op = "summarize_text" =>
      IF req[p].text = <<>> \/ TrimmedLen(req[p].text) < 10
        THEN pc[p] = "done" /\ result[p] = TextTooShortReply /\ T5CallsOf(p) = <<>>
        ELSE result[p] # TextTooShortReply

\* a text of 10 or more characters of which fewer than 10 remain once trimmed
\* has been rejected
C1_Witness ==
  \E p \in Handlers :
    /\ Done(p, "summarize_text")
    /\ Len(req[p].text) >= 10
    /\ TrimmedLen(req[p].text) < 10
    /\ result[p] = TextTooShortReply

\* Python's round(num / den): to the nearest integer, a tie to the even one
PyRound(num, den) ==
  LET q == num \div den
      r == num % den
  IN IF 2 * r < den THEN q
     ELSE IF 2 * r > den THEN q + 1
     ELSE IF q % 2 = 0 THEN q ELSE q + 1

Clamp(x, lower, upper) == IF x < lower THEN lower ELSE IF x > upper THEN upper ELSE x

\* the bounds the specification asks for: round(n * 0.5) in 60..300 and
\* round(n * 0.15) in 20..50
compute_bounds(n) ==
  [max_length |-> Clamp(PyRound(n, 2), 60, 300),
   min_length |-> Clamp(PyRound(15 * n, 100), 20, 50)]

\* C2: the length bounds of every generate call of a summarize request are
\* compute_bounds(n), n the number of words of the text.
C2_AdaptiveBounds ==
  \A p \in Handlers :
    req[p].op = "summarize_text" =>
      \A i \in DOMAIN calls[p] :
        calls[p][i].fn = "generate" =>
          /\ calls[p][i].args.max_length = compute_bounds(WordCount(req[p].text)).max_length
          /\ calls[p][i].args.min_length = compute_bounds(WordCount(req[p].text)).min_length

\* C3: in every generate call, of summarize_text and of process_audio,
\* min_length is at most max_length.
C3_MinAtMostMax ==
  \A p \in Handlers :
    \A i \in DOMAIN calls[p] :
      calls[p][i].fn = "generate" =>
        calls[p][i].args.min_length <= calls[p][i].args.max_length

\* a summarize request and a process-audio request have both called generate
C3_Witness ==
  \E p, q \in Handlers :
    /\ Done(p, "summarize_text") /\ GenerateCallsOf(p) # <<>>
    /\ Done(q, "process_audio") /\ GenerateCallsOf(q) # <<>>

\* C4: the beam count of every generate call of a summarize request is 4 when
\* quality is "high" and 2 for every other quality.
C4_EffortByQuality ==
  \A p \in Handlers :
    req[p].op = "summarize_text" =>
      \A i \in DOMAIN calls[p] :
        calls[p][i].fn = "generate" =>
          calls[p][i].args.num_beams = (IF req[p].quality = "high" THEN 4 ELSE 2)

GenerateFailed(p) ==
  /\ Done(p, "summarize_text")
  /\ calls[p] # <<>>
  /\ LastCall(p).fn = "generate"
  /\ ~LastCall(p).reply.ok

\* C5 as claimed: when generate fails, the failure itself reaches the caller
\* unchanged (the call raises it), after exactly one generate call.
C5_FailureUnchanged ==
  \A p \in Handlers :
    GenerateFailed(p) =>
      /\ result[p] = [kind |-> "raise", exc |-> LastCall(p).reply.exc]
      /\ Len(GenerateCallsOf(p)) = 1

\* C5 as amended: when generate fails, summarize_text returns normally the
\* reply {"error": message of the failure}, after exactly one generate call;
\* no summary is put in the failure's place.
C5_FailureReported ==
  \A p \in Handlers :
    GenerateFailed(p) =>
      /\ result[p] = [kind |-> "return", json |-> [error |-> LastCall(p).reply.exc.msg]]
      /\ Len(GenerateCallsOf(p)) = 1

\* a summarize request's generate call has failed
C5_Witness ==
  \E p \in Handlers : GenerateFailed(p) /\ LastCall(p).reply.exc \in GenerateFailures

\* C6: generate_document with a non-empty text succeeds whatever its
\* metadata, with "Project" and "Company" for what the metadata does not give.
C6_MetadataNeverFails ==
  \A p \in Handlers :
    (Done(p, "generate_document") /\ req[p].text # <<>>) =>
      "success" \in DOMAIN result[p].json

\* two finished summarize requests with the same text and quality
SameButStrategy(p, q) ==
  /\ Done(p, "summarize_text") /\ Done(q, "summarize_text")
  /\ req[p].text = req[q].text
  /\ req[p].quality = req[q].quality

\* C7: a summarize reply echoes the request's strategy, and of two summarize
\* requests that differ in strategy alone the generate calls have the same
\* arguments and, given the same reply of the model, the results differ in
\* the strategy field alone.
C7_StrategyOnlyEchoed ==
  \A p, q \in Handlers :
    /\ (Done(p, "summarize_text") /\ "success" \in DOMAIN result[p].json) =>
         result[p].json.strategy = req[p].strategy
    /\ SameButStrategy(p, q) =>
         /\ \A i \in DOMAIN calls[p], j \in DOMAIN calls[q] :
              (calls[p][i].fn = "generate" /\ calls[q][j].fn = "generate") =>
                calls[p][i].args = calls[q][j].args
         /\ (/\ GenerateCallsOf(p) # <<>> /\ GenerateCallsOf(q) # <<>>
             /\ LastCall(p).reply = LastCall(q).reply) =>
              IF LastCall(p).reply.ok
                THEN [result[p].json EXCEPT !.strategy = ""] =
                     [result[q].json EXCEPT !.strategy = ""]
                ELSE result[p] = result[q]

\* two requests that differ in strategy alone have got the same summary
C7_Witness ==
  \E p, q \in Handlers :
    /\ SameButStrategy(p, q)
    /\ req[p].strategy # req[q].strategy
    /\ GenerateCallsOf(p) # <<>> /\ GenerateCallsOf(q) # <<>>
    /\ LastCall(p).reply.ok
    /\ LastCall(p).reply = LastCall(q).reply

\* C8: the outcome of an accepted summarize request is decided by its own
\* arguments and the external model's reply to it: the summary it was given,
\* or the failure raised to it.
C8_Stateless ==
  \A p \in Handlers :
    (Done(p, "summarize_text") /\ TrimmedLen(req[p].text) >= 10) =>
      /\ calls[p] # <<>>
      /\ result[p] =
           IF LastCall(p).reply.ok
             THEN Return(SummarizeReply(req[p].text, req[p].strategy, req[p].quality,
                                        LastCall(p).reply.value))
             ELSE Return([error |-> LastCall(p).reply.exc.msg])

\* the reply with every formatted time replaced by its format
Mask(parts) ==
  [i \in DOMAIN parts |->
     IF "time" \in DOMAIN parts[i] THEN [time |-> parts[i].time.fmt] ELSE parts[i]]
Untimed(r) ==
  IF "success" \in DOMAIN r.json
    THEN [r.json EXCEPT !.document = Mask(@), !.filename = Mask(@)]
    ELSE r.json

\* C9: two generate_document calls with the same text, document type and
\* metadata give the same document and filename when they read the same
\* clock values, and replies that differ in the formatted times alone when
\* they do not.
C9_DocumentDeterministic ==
  \A p, q \in Handlers :
    (Done(p, "generate_document") /\ Done(q, "generate_document") /\ req[p] = req[q]) =>
      /\ loc[p].nows = loc[q].nows => result[p] = result[q]
      /\ Untimed(result[p]) = Untimed(result[q])

\* two calls with the same arguments have produced documents at different
\* clock values
C9_Witness ==
  \E p, q \in Handlers :
    /\ Done(p, "generate_document") /\ Done(q, "generate_document")
    /\ req[p] = req[q]
    /\ "success" \in DOMAIN result[p].json /\ "success" \in DOMAIN result[q].json
    /\ req[p].document_type = "po"
    /\ result[p] # result[q]

\* C10: what get_t5_model has returned to a handler is a loaded tokenizer and
\* a loaded model.
C10_BothLoaded ==
  \A p \in Handlers :
    pc[p] = "generate" => (loc[p].tokenizer # None /\ loc[p].model # None)

====
